---- MODULE Spec2Model ----
(***************************************************************************)
(* Gateway protocol state machine of the discord crate                     *)
(* (src/src/proto/mod.rs, GatewayContext) with the close-code taxonomy of  *)
(* src/src/error.rs.  One action per public operation of GatewayContext.   *)
(***************************************************************************)
EXTENDS Integers, Sequences, FiniteSets, TLC

(* ---------------------------------------------------------------------- *)
(* Bounds of the model                                                     *)
(* ---------------------------------------------------------------------- *)
\* largest sequence number a Dispatch frame carries
MaxSeq == 1
\* most commands and events together the application leaves undrained
MaxPending == 2
\* longest history of events received, and of commands queued, that is followed
MaxHistory == 2
\* close-code errors counted before the count stops
MaxErrors == 2

(* ---------------------------------------------------------------------- *)
(* Input domains                                                           *)
(* ---------------------------------------------------------------------- *)
\* heartbeat intervals a Hello frame may carry
HeartbeatIntervals == {10, 15}
\* the value a server Heartbeat request carries (never a value of seq)
HeartbeatRequests == {99}
\* session ids a Ready payload may carry
SessionIds == {"S"}
\* close codes handed to recv_close_code: every code the taxonomy names,
\* the gaps between them, and codes below and above the 4000 block
CloseInputs ==
    {1000, 1001, 1006, 3999, 5000} \cup (4000..4015)

(* ---------------------------------------------------------------------- *)
(* src/src/error.rs : CloseCode                                            *)
(* ---------------------------------------------------------------------- *)
Named(n) == [name |-> n, v |-> 0]
Other(v) == [name |-> "Other", v |-> v]

UnknownError == Named("UnknownError")
UnknownOpcode == Named("UnknownOpcode")
DecodeError == Named("DecodeError")
NotAuthenticated == Named("NotAuthenticated")
AuthenticationFailed == Named("AuthenticationFailed")
AlreadyAuthenticated == Named("AlreadyAuthenticated")
InvalidSeq == Named("InvalidSeq")
RateLimited == Named("RateLimited")
SessionTimedOut == Named("SessionTimedOut")
InvalidShard == Named("InvalidShard")
ShardingRequired == Named("ShardingRequired")
InvalidAPIVersion == Named("InvalidAPIVersion")
InvalidIntents == Named("InvalidIntents")
DisallowedIntents == Named("DisallowedIntents")

\* the numbering of the gateway documentation, with 4002 DecodeError and no
\* 4006, in place of the table of From<u16>
CloseCodeFrom_Documented(v) ==
    CASE v = 4000 -> UnknownError
      [] v = 4001 -> UnknownOpcode
      [] v = 4002 -> DecodeError
      [] v = 4003 -> NotAuthenticated
      [] v = 4004 -> AuthenticationFailed
      [] v = 4005 -> AlreadyAuthenticated
      [] v = 4007 -> InvalidSeq
      [] v = 4008 -> RateLimited
      [] v = 4009 -> SessionTimedOut
      [] v = 4010 -> InvalidShard
      [] v = 4011 -> ShardingRequired
      [] v = 4012 -> InvalidAPIVersion
      [] v = 4013 -> InvalidIntents
      [] v = 4014 -> DisallowedIntents
      [] OTHER -> Other(v)

\* impl From<u16> for CloseCode
CloseCodeFrom(v) ==
    CASE v = 4000 -> UnknownError
      [] v = 4001 -> UnknownOpcode
      [] v = 4003 -> DecodeError
      [] v = 4004 -> NotAuthenticated
      [] v = 4005 -> AuthenticationFailed
      [] v = 4006 -> AlreadyAuthenticated
      [] v = 4007 -> InvalidSeq
      [] v = 4008 -> RateLimited
      [] v = 4009 -> SessionTimedOut
      [] v = 4010 -> InvalidShard
      [] v = 4011 -> ShardingRequired
      [] v = 4012 -> InvalidAPIVersion
      [] v = 4013 -> InvalidIntents
      [] v = 4014 -> DisallowedIntents
      [] OTHER -> Other(v)

\* CloseCode::is_recoverable
is_recoverable(code) ==
    IF code \in {UnknownError, UnknownOpcode, DecodeError, NotAuthenticated,
                 AlreadyAuthenticated, InvalidSeq, RateLimited, SessionTimedOut}
    THEN TRUE
    ELSE IF code.name = "Other" THEN code.v < 4000
    ELSE FALSE

(* ---------------------------------------------------------------------- *)
(* src/src/proto/mod.rs : State                                            *)
(* ---------------------------------------------------------------------- *)
NoCode == Named("-")
Plain(t) == [tag |-> t, code |-> NoCode]
Closed == Plain("Closed")
Identify == Plain("Identify")
Ready == Plain("Ready")
Reconnect == Plain("Reconnect")
Resume == Plain("Resume")
Replaying == Plain("Replaying")
Failed(code) == [tag |-> "Failed", code |-> code]

(* ---------------------------------------------------------------------- *)
(* Frames, dispatch payloads and commands                                  *)
(* ---------------------------------------------------------------------- *)
\* DispatchEvent: Ready carries the session id, the others nothing the
\* context looks at
DispatchReady(sid) == [kind |-> "Ready", session_id |-> sid]
DispatchResumed == [kind |-> "Resumed", session_id |-> ""]
DispatchMessageCreate == [kind |-> "MessageCreate", session_id |-> ""]
DispatchEvents ==
    {DispatchReady(sid) : sid \in SessionIds}
        \cup {DispatchResumed, DispatchMessageCreate}

\* GatewayEvent
EvHello(h) == [op |-> "Hello", n |-> h, d |-> DispatchResumed, b |-> FALSE]
EvHeartbeat(x) == [op |-> "Heartbeat", n |-> x, d |-> DispatchResumed, b |-> FALSE]
EvHeartbeatAck == [op |-> "HeartbeatAck", n |-> 0, d |-> DispatchResumed, b |-> FALSE]
EvReconnect == [op |-> "Reconnect", n |-> 0, d |-> DispatchResumed, b |-> FALSE]
EvInvalidateSession(r) ==
    [op |-> "InvalidateSession", n |-> 0, d |-> DispatchResumed, b |-> r]
EvDispatch(s, ev) == [op |-> "Dispatch", n |-> s, d |-> ev, b |-> FALSE]

GatewayEvents ==
    {EvHello(h) : h \in HeartbeatIntervals}
        \cup {EvHeartbeat(x) : x \in HeartbeatRequests}
        \cup {EvHeartbeatAck, EvReconnect}
        \cup {EvInvalidateSession(r) : r \in BOOLEAN}
        \cup {EvDispatch(s, ev) : s \in 0..MaxSeq, ev \in DispatchEvents}

\* GatewayCommand
NoShard == <<0, 0>>
CmdHeartbeat(s) ==
    [cmd |-> "Heartbeat", seq |-> s, session_id |-> "", token |-> "",
     shard |-> NoShard, intents |-> 0]
CmdResume(s, sid, tok) ==
    [cmd |-> "Resume", seq |-> s, session_id |-> sid, token |-> tok,
     shard |-> NoShard, intents |-> 0]
\* large_threshold of the Identify the Hello arm builds
IdentifyLargeThreshold == 100000
\* IdentifyProperties::new(LIB_NAME, LIB_NAME, std::env::consts::OS, ..)
LibProperties == "lib"
\* presence: None
NoPresence == "None"
\* Identify::new(IdentifyInfo { compress: false, .. })
IdentifyInfo(tok, sh, it, lt, pres, props) ==
    [cmd |-> "Identify", seq |-> 0, session_id |-> "", token |-> tok,
     shard |-> sh, intents |-> it, compress |-> FALSE, large_threshold |-> lt,
     presence |-> pres, properties |-> props]
\* the Identify of the Hello arm for a configuration that sets no presence
CmdIdentify(tok, sh, it) ==
    IdentifyInfo(tok, sh, it, IdentifyLargeThreshold, NoPresence, LibProperties)
CmdUpdatePresence ==
    [cmd |-> "UpdatePresence", seq |-> 0, session_id |-> "", token |-> "",
     shard |-> NoShard, intents |-> 0]
\* commands the application hands to enqueue_command
UserCommands == {CmdUpdatePresence}

(* ---------------------------------------------------------------------- *)
(* src/src/proto/config.rs : Config                                        *)
(* ---------------------------------------------------------------------- *)
\* Config::new
DefaultLargeThreshold == 50
ConfigNew(tok, it) ==
    [token |-> tok, intents |-> it, shard |-> <<0, 1>>,
     large_threshold |-> DefaultLargeThreshold, presence |-> NoPresence,
     identify_properties |-> LibProperties]
\* Config::shard
ConfigShard(c, sh) == [c EXCEPT !.shard = sh]
\* the configurations a context is built with
Configs == {ConfigShard(ConfigNew("TOKEN", 513), <<1, 2>>)}

(* ---------------------------------------------------------------------- *)
(* State of a GatewayContext                                               *)
(* ---------------------------------------------------------------------- *)
VARIABLES config, seq, session_id, heartbeat_interval, recv_queue,
          send_queue, state, socket_closed

ctx == <<config, seq, session_id, heartbeat_interval, recv_queue,
         send_queue, state, socket_closed>>

\* GatewayContext::new
Init ==
    /\ config \in Configs
    /\ seq = 0
    /\ heartbeat_interval = 0
    /\ recv_queue = <<>>
    /\ send_queue = <<>>
    /\ state = Closed
    /\ session_id = ""
    /\ socket_closed = FALSE

\* commands and events waiting to be drained
Pending == Len(send_queue) + Len(recv_queue)

(* ---------------------------------------------------------------------- *)
(* Observers                                                               *)
(* ---------------------------------------------------------------------- *)
\* should_reconnect without the arm for Failed
should_reconnect_NoFailedArm ==
    IF state \in {Resume, Reconnect} THEN TRUE ELSE socket_closed

\* should_reconnect with Reconnect missing from the first arm
should_reconnect_ResumeOnly ==
    IF state = Resume THEN TRUE
    ELSE IF state.tag = "Failed" THEN FALSE
    ELSE socket_closed

\* GatewayContext::should_reconnect
should_reconnect ==
    IF state \in {Resume, Reconnect} THEN TRUE
    ELSE IF state.tag = "Failed" THEN FALSE
    ELSE socket_closed

\* GatewayContext::failed  (<<>> is None, <<c>> is Some(c))
failed == IF state.tag = "Failed" THEN <<state.code>> ELSE <<>>

\* GatewayContext::is_closed
is_closed == state \in {Closed, Reconnect, Resume}

\* what event returns: recv_queue.pop_front()  (<<>> is None, <<x>> is Some(x))
event_value == IF recv_queue = <<>> THEN <<>> ELSE <<Head(recv_queue)>>

\* what events yields: recv_queue.drain(..)
events_value == recv_queue

\* what send returns: send_queue.pop_front()
send_value == IF send_queue = <<>> THEN <<>> ELSE <<Head(send_queue)>>

\* what send_iter yields: send_queue.drain(..)
send_iter_value == send_queue

(* ---------------------------------------------------------------------- *)
(* Operations                                                              *)
(* ---------------------------------------------------------------------- *)
\* an enqueue_command that puts the command at the head of the queue
enqueue_command_PushFront(cmd) ==
    /\ Pending < MaxPending
    /\ send_queue' = <<cmd>> \o send_queue
    /\ UNCHANGED <<config, seq, session_id, heartbeat_interval, recv_queue,
                   state, socket_closed>>

\* GatewayContext::enqueue_command
enqueue_command(cmd) ==
    /\ Pending < MaxPending
    /\ send_queue' = Append(send_queue, cmd)
    /\ UNCHANGED <<config, seq, session_id, heartbeat_interval, recv_queue,
                   state, socket_closed>>

\* an event that removes the newest event and leaves the oldest
event_PopBack ==
    /\ recv_queue' = IF recv_queue = <<>> THEN <<>>
                     ELSE SubSeq(recv_queue, 1, Len(recv_queue) - 1)
    /\ UNCHANGED <<config, seq, session_id, heartbeat_interval, send_queue,
                   state, socket_closed>>

\* GatewayContext::event
event ==
    /\ recv_queue' = IF recv_queue = <<>> THEN <<>> ELSE Tail(recv_queue)
    /\ UNCHANGED <<config, seq, session_id, heartbeat_interval, send_queue,
                   state, socket_closed>>

\* GatewayContext::events
events ==
    /\ recv_queue' = <<>>
    /\ UNCHANGED <<config, seq, session_id, heartbeat_interval, send_queue,
                   state, socket_closed>>

\* the command queue_heartbeat pushes: Heartbeat::new(self.seq)
HeartbeatCommand == CmdHeartbeat(seq)

\* a queue_heartbeat that puts the command at the head of the queue
queue_heartbeat_PushFront ==
    /\ Pending < MaxPending
    /\ send_queue' = <<HeartbeatCommand>> \o send_queue
    /\ UNCHANGED <<config, seq, session_id, heartbeat_interval, recv_queue,
                   state, socket_closed>>

\* GatewayContext::queue_heartbeat
queue_heartbeat ==
    /\ Pending < MaxPending
    /\ send_queue' = Append(send_queue, HeartbeatCommand)
    /\ UNCHANGED <<config, seq, session_id, heartbeat_interval, recv_queue,
                   state, socket_closed>>

\* a recoverable close asking for a fresh connection instead of a resume
CloseState_Reconnect(code) ==
    IF is_recoverable(code) THEN Reconnect ELSE Failed(code)

\* the state recv_close_code assigns for a close code
CloseState(code) == IF is_recoverable(code) THEN Resume ELSE Failed(code)

\* a close that also forgets the sequence number
recv_close_code_ResetsSeq(v) ==
    /\ socket_closed' = TRUE
    /\ state' = CloseState(CloseCodeFrom(v))
    /\ seq' = 0
    /\ UNCHANGED <<config, session_id, heartbeat_interval, recv_queue,
                   send_queue>>

\* a close that also empties both queues
recv_close_code_ClearsQueues(v) ==
    /\ socket_closed' = TRUE
    /\ state' = CloseState(CloseCodeFrom(v))
    /\ recv_queue' = <<>>
    /\ send_queue' = <<>>
    /\ UNCHANGED <<config, seq, session_id, heartbeat_interval>>

\* a close that records the closed socket and leaves the state as it is
recv_close_code_KeepsState(v) ==
    /\ socket_closed' = TRUE
    /\ UNCHANGED <<config, seq, session_id, heartbeat_interval, recv_queue,
                   send_queue, state>>

\* GatewayContext::recv_close_code
recv_close_code(v) ==
    /\ socket_closed' = TRUE
    /\ state' = CloseState(CloseCodeFrom(v))
    /\ UNCHANGED <<config, seq, session_id, heartbeat_interval, recv_queue,
                   send_queue>>

\* a Hello match that also resumes from Reconnect
HelloResumes_AlsoReconnect(st) == st \in {Resume, Ready, Reconnect}

\* a Hello match that resumes from Ready alone
HelloResumes_ReadyOnly(st) == st = Ready

\* the arm of the state match a Hello frame takes: TRUE for the Resume arm
HelloResumes(st) == st \in {Resume, Ready}

\* a Resume that starts the replay from sequence number 0
HelloResumeCommand_SeqZero == CmdResume(0, session_id, config.token)

\* the Resume command of the Hello arm
HelloResumeCommand == CmdResume(seq, session_id, config.token)

\* an Identify with the shard and intents written into the code
HelloIdentifyCommand_Hardcoded == CmdIdentify(config.token, <<0, 1>>, 0)

\* the Identify command of the Hello arm
HelloIdentifyCommand ==
    IdentifyInfo(config.token, config.shard, config.intents,
                 IdentifyLargeThreshold, config.presence, LibProperties)

\* an InvalidateSession match with its two arms exchanged
InvalidateState_Swapped(resumable) == IF resumable THEN Reconnect ELSE Resume

\* the state an InvalidateSession frame assigns
InvalidateState(resumable) == IF resumable THEN Resume ELSE Reconnect

\* a Resumed dispatch that leaves the state alone
DispatchState_ReadyOnly(ev) == IF ev.kind = "Ready" THEN Ready ELSE state

\* the state a Dispatch frame leaves the context in
DispatchState(ev) ==
    IF ev.kind \in {"Ready", "Resumed"} THEN Ready ELSE state

\* the session id a Dispatch frame leaves the context with
DispatchSession(ev) ==
    IF ev.kind = "Ready" THEN ev.session_id ELSE session_id

\* a reply that echoes the number the request carries
HeartbeatReply_Echo(x) == CmdHeartbeat(x)

\* the command the Heartbeat(_) arm queues: it calls queue_heartbeat
HeartbeatReply(x) == HeartbeatCommand

\* an acknowledgement answered with another heartbeat
recv_HeartbeatAck_QueuesHeartbeat ==
    /\ send_queue' = Append(send_queue, HeartbeatCommand)
    /\ UNCHANGED <<seq, session_id, heartbeat_interval, recv_queue, state>>

\* the HeartbeatAck arm of recv
recv_HeartbeatAck ==
    UNCHANGED <<seq, session_id, heartbeat_interval, recv_queue,
                send_queue, state>>

\* a Dispatch frame that never lowers seq
DispatchSeq_Max(s) == IF s > seq THEN s ELSE seq

\* the seq a Dispatch frame carrying s leaves the context with
DispatchSeq(s) == s

\* GatewayContext::recv
recv(e) ==
    /\ socket_closed' = FALSE
    /\ config' = config
    /\ CASE e.op = "InvalidateSession" ->
              /\ state' = InvalidateState(e.b)
              /\ UNCHANGED <<seq, session_id, heartbeat_interval, recv_queue,
                             send_queue>>
         [] e.op = "Reconnect" ->
              /\ state' = Resume
              /\ UNCHANGED <<seq, session_id, heartbeat_interval, recv_queue,
                             send_queue>>
         [] e.op = "Heartbeat" ->
              /\ Pending < MaxPending
              /\ send_queue' = Append(send_queue, HeartbeatReply(e.n))
              /\ UNCHANGED <<seq, session_id, heartbeat_interval, recv_queue,
                             state>>
         [] e.op = "HeartbeatAck" -> recv_HeartbeatAck
         [] e.op = "Hello" ->
              /\ Pending < MaxPending
              /\ heartbeat_interval' = e.n
              /\ IF HelloResumes(state)
                 THEN /\ send_queue' = Append(send_queue, HelloResumeCommand)
                      /\ state' = Replaying
                 ELSE /\ send_queue' = Append(send_queue, HelloIdentifyCommand)
                      /\ state' = Identify
              /\ UNCHANGED <<seq, session_id, recv_queue>>
         [] e.op = "Dispatch" ->
              /\ Pending < MaxPending
              /\ session_id' = DispatchSession(e.d)
              /\ state' = DispatchState(e.d)
              /\ seq' = DispatchSeq(e.n)
              /\ recv_queue' = Append(recv_queue, e.d)
              /\ UNCHANGED <<heartbeat_interval, send_queue>>

\* GatewayContext::send
send ==
    /\ send_queue' = IF send_queue = <<>> THEN <<>> ELSE Tail(send_queue)
    /\ UNCHANGED <<config, seq, session_id, heartbeat_interval, recv_queue,
                   state, socket_closed>>

\* GatewayContext::send_iter
send_iter ==
    /\ send_queue' = <<>>
    /\ UNCHANGED <<config, seq, session_id, heartbeat_interval, recv_queue,
                   state, socket_closed>>

(* ---------------------------------------------------------------------- *)
(* History of the inputs, kept beside the context to state trace claims    *)
(* ---------------------------------------------------------------------- *)
\* armed: whether a Dispatch Ready was received with no Hello, no
\*   InvalidateSession(false) and no non-recoverable close since: "no", or
\*   what came after that Ready: "ready" nothing, "frames" only frames,
\*   "closed" also a recoverable close
\* fired: the value armed had when the latest input, a Hello, arrived; "no"
\*   when the latest input was not a Hello
\* bounce: how far the inputs are into the sequence Ready, dispatches,
\*   recoverable close, Hello, Resumed, with the session id and seq the
\*   context held when the close arrived; or into the sequence Ready state,
\*   InvalidateSession(false), Hello ("invalidated", "reidentified")
\* lastSeq: the sequence number of the latest Dispatch frame, 0 before any
\* latest: the latest call when it was recv of a Heartbeat request ("hb"),
\*   of one HeartbeatAck ("ack") or of several in a row ("acks"), or
\*   queue_heartbeat ("qh"); "none" otherwise and wherever it is not kept
VARIABLES armed, fired, bounce, lastSeq, latest

\* arrived: the events of the Dispatch frames received, in order of arrival
\* returned: the events event and events have handed out, in order
\* appended: the commands put on send_queue, in order
\* written: the commands send and send_iter have handed out, in order
VARIABLES arrived, returned, appended, written

\* The Manager around the context (src/src/manager.rs):
\* pc: where the future of Manager::recv stands: "idle" between calls, "top"
\*   at the head of its loop, "select" waiting at the timer-vs-frame race,
\*   "flush" past the race and about to drain send_queue, "feed" waiting in
\*   socket.feed, "flushing" waiting in socket.flush, "panicked"
\* draining: the commands the Drain of send_iter still holds; draining[1] is
\*   the one being fed
\* result: what the latest call of Manager::recv returned
\* sock: the transport: "new" opened and Hello not yet read, "live", or
\*   "dead" once a Close frame or a read error came out of it
\* first: the first command written on the current transport, <<>> before
\* resumeDue: whether the current transport was opened by reconnect_socket
\*   for a session that had reached Ready
\* errors: how many calls have returned a close-code error
\* readError: whether a read error or the end of the stream was the latest
\*   thing read from a transport
\* open: how many transports the Manager holds that it has not closed
\* peak: the most transports it has held open at one moment
\* reopened: what opened the current transport: "no" connect, "head" the
\*   loop head because should_reconnect() was true, "error" a read error
\* interval: the period of the Manager's tokio Interval
VARIABLES pc, draining, result, sock, first, resumeDue, errors, readError,
          open, peak, reopened, interval

hist == <<armed, fired, bounce, lastSeq>>
queueHist == <<arrived, returned, appended, written>>
mgr == <<pc, draining, result, sock, first, resumeDue, errors, readError,
         open, peak, reopened, interval>>
vars == <<ctx, hist, latest, queueHist, mgr>>

NoResult == [tag |-> "None", val |-> <<>>]

QueueHistInit ==
    /\ arrived = <<>>
    /\ returned = <<>>
    /\ appended = <<>>
    /\ written = <<>>

\* no Manager around the context
NoManager ==
    /\ pc = "idle"
    /\ draining = <<>>
    /\ result = NoResult
    /\ sock = "live"
    /\ first = <<>>
    /\ resumeDue = FALSE
    /\ errors = 0
    /\ readError = FALSE
    /\ open = 0
    /\ peak = 0
    /\ reopened = "no"
    /\ interval = 0

Phase(p, sid, s) == [phase |-> p, sid |-> sid, seq |-> s]
NoBounce == Phase("none", "", 0)

HistInit ==
    /\ armed = "no"
    /\ fired = "no"
    /\ bounce = NoBounce
    /\ lastSeq = 0
    /\ latest = "none"
    /\ QueueHistInit
    /\ NoManager

ArmedAfterRecv(e) ==
    IF e.op = "Dispatch" /\ e.d.kind = "Ready" THEN "ready"
    ELSE IF e.op = "Hello" THEN "no"
    ELSE IF e.op = "InvalidateSession" /\ ~e.b THEN "no"
    ELSE IF armed = "ready" THEN "frames"
    ELSE armed

ArmedAfterClose(v) ==
    IF ~is_recoverable(CloseCodeFrom(v)) \/ armed = "no" THEN "no" ELSE "closed"

BounceAfterRecv(e) ==
    IF e.op = "Dispatch"
    THEN IF e.d.kind = "Ready" \/ bounce.phase = "ready"
         THEN Phase("ready", "", 0)
         ELSE IF bounce.phase = "hello" /\ e.d.kind = "Resumed"
              THEN Phase("resumed", bounce.sid, bounce.seq)
              ELSE NoBounce
    ELSE IF e.op = "Hello" /\ bounce.phase = "closed"
         THEN Phase("hello", bounce.sid, bounce.seq)
    ELSE IF e.op = "InvalidateSession" /\ ~e.b /\ state = Ready
         THEN Phase("invalidated", "", 0)
    ELSE IF e.op = "Hello" /\ bounce.phase = "invalidated"
         THEN Phase("reidentified", "", 0)
         ELSE NoBounce

BounceAfterClose(v) ==
    IF bounce.phase = "ready" /\ is_recoverable(CloseCodeFrom(v))
    THEN Phase("closed", session_id, seq)
    ELSE NoBounce

ObserveRecv(e) ==
    /\ armed' = ArmedAfterRecv(e)
    /\ fired' = IF e.op = "Hello" THEN armed ELSE "no"
    /\ bounce' = BounceAfterRecv(e)
    /\ lastSeq' = IF e.op = "Dispatch" THEN e.n ELSE lastSeq

ObserveClose(v) ==
    /\ armed' = ArmedAfterClose(v)
    /\ fired' = "no"
    /\ bounce' = BounceAfterClose(v)
    /\ lastSeq' = lastSeq

(* ---------------------------------------------------------------------- *)
(* The context under every call the application can make                   *)
(* ---------------------------------------------------------------------- *)
FullInit == Init /\ HistInit

Next ==
    \/ \E cmd \in UserCommands : enqueue_command(cmd) /\ UNCHANGED <<hist, latest, queueHist, mgr>>
    \/ event /\ UNCHANGED <<hist, latest, queueHist, mgr>>
    \/ events /\ UNCHANGED <<hist, latest, queueHist, mgr>>
    \/ queue_heartbeat /\ UNCHANGED <<hist, latest, queueHist, mgr>>
    \/ \E v \in CloseInputs : recv_close_code(v) /\ ObserveClose(v) /\ UNCHANGED <<latest, queueHist, mgr>>
    \/ \E e \in GatewayEvents : recv(e) /\ ObserveRecv(e) /\ UNCHANGED <<latest, queueHist, mgr>>
    \/ send /\ UNCHANGED <<hist, latest, queueHist, mgr>>
    \/ send_iter /\ UNCHANGED <<hist, latest, queueHist, mgr>>

Spec == FullInit /\ [][Next]_vars

(* ---------------------------------------------------------------------- *)
(* The context with the latest call on record                              *)
(* ---------------------------------------------------------------------- *)
\* close codes of the specifications below: one recoverable, one not
FewCloseInputs == {1000, 4005}

LatestAfterRecv(e) ==
    IF e.op = "Heartbeat" THEN "hb"
    ELSE IF e.op = "HeartbeatAck"
         THEN IF latest \in {"ack", "acks"} THEN "acks" ELSE "ack"
         ELSE "none"

NextFrames ==
    \/ \E cmd \in UserCommands :
           enqueue_command(cmd) /\ UNCHANGED <<hist, queueHist, mgr>> /\ latest' = "none"
    \/ event /\ UNCHANGED <<hist, queueHist, mgr>> /\ latest' = "none"
    \/ events /\ UNCHANGED <<hist, queueHist, mgr>> /\ latest' = "none"
    \/ queue_heartbeat /\ UNCHANGED <<hist, queueHist, mgr>> /\ latest' = "qh"
    \/ \E v \in FewCloseInputs :
           recv_close_code(v) /\ UNCHANGED <<hist, queueHist, mgr>> /\ latest' = "none"
    \/ \E e \in GatewayEvents :
           recv(e) /\ UNCHANGED <<hist, queueHist, mgr>> /\ latest' = LatestAfterRecv(e)
    \/ send /\ UNCHANGED <<hist, queueHist, mgr>> /\ latest' = "none"
    \/ send_iter /\ UNCHANGED <<hist, queueHist, mgr>> /\ latest' = "none"

SpecFrames == FullInit /\ [][NextFrames]_vars

(* ---------------------------------------------------------------------- *)
(* The context from its construction on                                    *)
(* ---------------------------------------------------------------------- *)
\* no context constructed yet
Unbuilt == Plain("Unbuilt")
\* a construction that did not return
Panicked == Plain("Panicked")
NoConfig == ConfigShard(ConfigNew("", 0), NoShard)

\* the configurations handed to new: Config::new with a token and with none
NewConfigs == {ConfigNew("TOKEN", 0), ConfigNew("", 0)}

UnbuiltInit ==
    /\ config = NoConfig
    /\ seq = 0
    /\ heartbeat_interval = 0
    /\ recv_queue = <<>>
    /\ send_queue = <<>>
    /\ state = Unbuilt
    /\ session_id = ""
    /\ socket_closed = FALSE
    /\ HistInit

\* a constructor that refuses an empty token
new_RejectsEmptyToken(c) ==
    /\ state = Unbuilt
    /\ IF c.token = ""
       THEN /\ state' = Panicked
            /\ UNCHANGED <<config, seq, session_id, heartbeat_interval,
                           recv_queue, send_queue, socket_closed>>
       ELSE /\ config' = c
            /\ seq' = 0
            /\ heartbeat_interval' = 0
            /\ recv_queue' = <<>>
            /\ send_queue' = <<>>
            /\ state' = Closed
            /\ session_id' = ""
            /\ socket_closed' = FALSE

\* a constructor that starts with the socket marked closed
new_SocketClosed(c) ==
    /\ state = Unbuilt
    /\ config' = c
    /\ seq' = 0
    /\ heartbeat_interval' = 0
    /\ recv_queue' = <<>>
    /\ send_queue' = <<>>
    /\ state' = Closed
    /\ session_id' = ""
    /\ socket_closed' = TRUE

\* GatewayContext::new
new(c) ==
    /\ state = Unbuilt
    /\ config' = c
    /\ seq' = 0
    /\ heartbeat_interval' = 0
    /\ recv_queue' = <<>>
    /\ send_queue' = <<>>
    /\ state' = Closed
    /\ session_id' = ""
    /\ socket_closed' = FALSE

NextNew ==
    \/ \E c \in NewConfigs : new(c) /\ UNCHANGED <<hist, latest, queueHist, mgr>>
    \/ /\ state \notin {Unbuilt, Panicked}
       /\ UNCHANGED <<hist, latest, queueHist, mgr>>
       /\ \/ \E cmd \in UserCommands : enqueue_command(cmd)
          \/ event
          \/ events
          \/ queue_heartbeat
          \/ \E v \in FewCloseInputs : recv_close_code(v)
          \/ \E e \in GatewayEvents : recv(e)
          \/ send
          \/ send_iter

SpecNew == UnbuiltInit /\ [][NextNew]_vars

(* ---------------------------------------------------------------------- *)
(* The context with what went into and came out of its queues on record    *)
(* ---------------------------------------------------------------------- *)
\* the commands recv(e) puts on send_queue
Produced(e) ==
    IF e.op = "Hello"
    THEN IF HelloResumes(state) THEN <<HelloResumeCommand>>
                                ELSE <<HelloIdentifyCommand>>
    ELSE IF e.op = "Heartbeat" THEN <<HeartbeatReply(e.n)>>
    ELSE <<>>

\* the events recv(e) puts on recv_queue
Delivered(e) == IF e.op = "Dispatch" THEN <<e.d>> ELSE <<>>

\* the calls that fill and empty recv_queue, with send_iter to make room
NextEvents ==
    \/ /\ event
       /\ returned' = returned \o event_value
       /\ UNCHANGED <<arrived, appended, written, hist, latest, mgr>>
    \/ /\ events
       /\ returned' = returned \o events_value
       /\ UNCHANGED <<arrived, appended, written, hist, latest, mgr>>
    \/ \E v \in FewCloseInputs :
           recv_close_code(v) /\ UNCHANGED <<queueHist, hist, latest, mgr>>
    \/ \E e \in GatewayEvents :
           /\ Len(arrived) + Len(Delivered(e)) <= MaxHistory
           /\ recv(e)
           /\ arrived' = arrived \o Delivered(e)
           /\ UNCHANGED <<returned, appended, written, hist, latest, mgr>>
    \/ send_iter /\ UNCHANGED <<queueHist, hist, latest, mgr>>

SpecEvents == FullInit /\ [][NextEvents]_vars

\* the calls that fill and empty send_queue, with events to make room: here
\* the application takes each event before the next Dispatch frame is received
NextCommands ==
    \/ \E cmd \in UserCommands :
           /\ Len(appended) < MaxHistory
           /\ enqueue_command(cmd)
           /\ appended' = Append(appended, cmd)
           /\ UNCHANGED <<arrived, returned, written, hist, latest, mgr>>
    \/ /\ Len(appended) < MaxHistory
       /\ queue_heartbeat
       /\ appended' = Append(appended, HeartbeatCommand)
       /\ UNCHANGED <<arrived, returned, written, hist, latest, mgr>>
    \/ \E v \in FewCloseInputs :
           recv_close_code(v) /\ UNCHANGED <<queueHist, hist, latest, mgr>>
    \/ \E e \in GatewayEvents :
           /\ Len(appended) + Len(Produced(e)) <= MaxHistory
           /\ e.op = "Dispatch" => recv_queue = <<>>
           /\ recv(e)
           /\ appended' = appended \o Produced(e)
           /\ UNCHANGED <<arrived, returned, written, hist, latest, mgr>>
    \/ /\ send
       /\ written' = written \o send_value
       /\ UNCHANGED <<arrived, returned, appended, hist, latest, mgr>>
    \/ /\ send_iter
       /\ written' = written \o send_iter_value
       /\ UNCHANGED <<arrived, returned, appended, hist, latest, mgr>>
    \/ events /\ UNCHANGED <<queueHist, hist, latest, mgr>>

SpecCommands == FullInit /\ [][NextCommands]_vars

(* ---------------------------------------------------------------------- *)
(* src/src/manager.rs : Manager, the context driven by a transport         *)
(* ---------------------------------------------------------------------- *)
Ok(ev) == [tag |-> "Ok", val |-> <<ev>>]
ErrClose(code) == [tag |-> "ErrClose", val |-> <<code>>]
ErrTransport == [tag |-> "ErrTransport", val |-> <<>>]

\* connect: a context that has received the Hello of the first transport
connect ==
    /\ config \in Configs
    /\ seq = 0
    /\ heartbeat_interval \in HeartbeatIntervals
    /\ recv_queue = <<>>
    /\ send_queue = <<HelloIdentifyCommand>>
    /\ state = Identify
    /\ session_id = ""
    /\ socket_closed = FALSE
    /\ pc = "idle"
    /\ draining = <<>>
    /\ result = NoResult
    /\ sock = "live"
    /\ first = <<>>
    /\ resumeDue = FALSE
    /\ errors = 0
    /\ readError = FALSE
    /\ open = 1
    /\ peak = 1
    /\ reopened = "no"
    /\ interval = heartbeat_interval

\* a reconnect_socket that opens the new transport before it closes the old
reconnect_socket_ok_OpenFirst ==
    /\ sock' = "new"
    /\ first' = <<>>
    /\ resumeDue' = (state \in {Ready, Resume} /\ session_id # "")
    /\ LET opened == open + 1
       IN /\ peak' = IF opened > peak THEN opened ELSE peak
          /\ open' = 1

\* Manager::reconnect_socket when connect_async succeeds: socket.close(None)
\* on the old transport, then connect_async, then the new socket is stored
reconnect_socket_ok ==
    /\ sock' = "new"
    /\ first' = <<>>
    /\ resumeDue' = (state \in {Ready, Resume} /\ session_id # "")
    /\ LET closed == 0
           opened == closed + 1
       IN /\ peak' = IF opened > peak THEN opened ELSE peak
          /\ open' = opened

\* Manager::reconnect_socket when connect_async fails: the old transport is
\* closed, the error goes to the caller of Manager::recv
reconnect_socket_err ==
    /\ sock' = "dead"
    /\ result' = ErrTransport
    /\ pc' = "idle"
    /\ open' = 0
    /\ UNCHANGED <<first, resumeDue, peak, reopened>>

\* a call of Manager::recv begins
manager_recv_call ==
    /\ pc = "idle"
    /\ pc' = "top"
    /\ result' = NoResult
    /\ UNCHANGED <<ctx, draining, sock, first, resumeDue, errors,
                   readError, open, peak, reopened, interval>>

\* a loop head that does not look at failed()
manager_recv_top_NoFailedCheck ==
    /\ pc = "top"
    /\ IF recv_queue # <<>>
       THEN /\ result' = Ok(Head(recv_queue))
            /\ event
            /\ pc' = "idle"
            /\ UNCHANGED <<draining, sock, first, resumeDue, errors, readError,
                   open, peak, reopened, interval>>
       ELSE /\ pc' = "select"
            /\ UNCHANGED <<ctx, draining, result, sock, first, resumeDue, errors,
                   readError, open, peak, reopened, interval>>

\* Manager::recv, head of the loop: a queued event, then failed(), then
\* should_reconnect(), then on to the race
manager_recv_top ==
    /\ pc = "top"
    /\ IF recv_queue # <<>>
       THEN /\ result' = Ok(Head(recv_queue))
            /\ event
            /\ pc' = "idle"
            /\ UNCHANGED <<draining, sock, first, resumeDue, errors, readError,
                   open, peak, reopened, interval>>
       ELSE IF failed # <<>>
       THEN /\ result' = ErrClose(failed[1])
            /\ errors' = IF errors < MaxErrors THEN errors + 1 ELSE errors
            /\ pc' = "idle"
            /\ UNCHANGED <<ctx, draining, sock, first, resumeDue, readError, open,
                   peak, reopened, interval>>
       ELSE IF should_reconnect
       THEN /\ \/ /\ reconnect_socket_ok
                  /\ reopened' = "head"
                  /\ pc' = "select"
                  /\ UNCHANGED result
               \/ reconnect_socket_err
            /\ UNCHANGED <<ctx, draining, errors, readError, interval>>
       ELSE /\ pc' = "select"
            /\ UNCHANGED <<ctx, draining, result, sock, first, resumeDue, errors,
                   readError, open, peak, reopened, interval>>

\* the race is won by interval.tick()
manager_recv_tick ==
    /\ pc = "select"
    /\ queue_heartbeat
    /\ pc' = "flush"
    /\ UNCHANGED <<draining, result, sock, first, resumeDue, errors,
                   readError, open, peak, reopened, interval>>

\* the race is won by a text frame: handle_ws_message, recv_json.  A new
\* transport delivers Hello first and no transport delivers it later.
manager_recv_text(e) ==
    /\ pc = "select"
    /\ sock # "dead"
    /\ (sock = "new") <=> (e.op = "Hello")
    /\ recv(e)
    /\ sock' = "live"
    /\ readError' = FALSE
    /\ pc' = "flush"
    /\ UNCHANGED <<draining, result, first, resumeDue, errors, open, peak,
                   reopened, interval>>

\* text frames recv_json cannot decode
InvalidJson == "invalid json"
UndecodableEvent == "undecodable event"
UndecodableTexts == {InvalidJson, UndecodableEvent}

\* the race is won by a text frame that does not decode: in recv_json
\* GatewayEventDeserializer::from_json(input).unwrap() panics on text with no
\* opcode, deserialize(..).unwrap() on an opcode or payload it does not know
manager_recv_undecodable(t) ==
    /\ pc = "select"
    /\ sock # "dead"
    /\ pc' = "panicked"
    /\ UNCHANGED <<ctx, draining, result, sock, first, resumeDue, errors,
                   readError, open, peak, reopened, interval>>

\* the race is won by Close(Some(frame)): handle_ws_message, recv_close_code
manager_recv_close(v) ==
    /\ pc = "select"
    /\ sock # "dead"
    /\ recv_close_code(v)
    /\ sock' = "dead"
    /\ readError' = FALSE
    /\ pc' = "flush"
    /\ UNCHANGED <<draining, result, first, resumeDue, errors, open, peak,
                   reopened, interval>>

\* the race is won by any other message (Close(None), Ping, Binary): ignored
manager_recv_other ==
    /\ pc = "select"
    /\ sock # "dead"
    /\ sock' \in {sock, "dead"}
    /\ readError' = FALSE
    /\ pc' = "flush"
    /\ UNCHANGED <<ctx, draining, result, first, resumeDue, errors, open,
                   peak, reopened, interval>>

\* the race is won by Some(Err(e)) or None: reconnect_socket
manager_recv_read_error ==
    /\ pc = "select"
    /\ readError' = TRUE
    /\ \/ /\ reconnect_socket_ok
          /\ reopened' = "error"
          /\ pc' = "flush"
          /\ UNCHANGED result
       \/ reconnect_socket_err
    /\ UNCHANGED <<ctx, draining, errors, interval>>

\* the flush loop begins: send_iter_json takes every queued command
manager_recv_drain ==
    /\ pc = "flush"
    /\ draining' = send_iter_value
    /\ send_iter
    /\ pc' = IF send_iter_value = <<>> THEN "flushing" ELSE "feed"
    /\ UNCHANGED <<result, sock, first, resumeDue, errors, readError,
                   open, peak, reopened, interval>>

\* socket.feed returns: the command is with the transport, or the expect
\* panics and the unwinding drops the Drain with what it still holds
manager_recv_feed ==
    /\ pc = "feed"
    /\ \/ /\ first' = IF first = <<>> THEN <<Head(draining)>> ELSE first
          /\ draining' = Tail(draining)
          /\ pc' = IF Tail(draining) = <<>> THEN "flushing" ELSE "feed"
       \/ /\ pc' = "panicked"
          /\ draining' = <<>>
          /\ UNCHANGED first
    /\ UNCHANGED <<ctx, result, sock, resumeDue, errors, readError, open,
                   peak, reopened, interval>>

\* socket.flush returns: on to the head of the loop, or the error goes to
\* the caller
manager_recv_flush ==
    /\ pc = "flushing"
    /\ \/ pc' = "top" /\ UNCHANGED result
       \/ pc' = "idle" /\ result' = ErrTransport
    /\ UNCHANGED <<ctx, draining, sock, first, resumeDue, errors,
                   readError, open, peak, reopened, interval>>

\* the future of Manager::recv is dropped where it waits: what the Drain
\* still holds, the command being fed included, is dropped with it
manager_recv_cancel ==
    /\ pc \in {"select", "feed", "flushing"}
    /\ pc' = "idle"
    /\ draining' = <<>>
    /\ result' = NoResult
    /\ UNCHANGED <<ctx, sock, first, resumeDue, errors, readError, open,
                   peak, reopened, interval>>

NextManager ==
    \/ manager_recv_call /\ UNCHANGED <<hist, latest, queueHist>>
    \/ manager_recv_top /\ UNCHANGED <<hist, latest, queueHist>>
    \/ manager_recv_tick /\ UNCHANGED <<hist, latest, queueHist>>
    \/ \E e \in GatewayEvents :
           manager_recv_text(e) /\ UNCHANGED <<hist, latest, queueHist>>
    \/ \E v \in FewCloseInputs :
           manager_recv_close(v) /\ UNCHANGED <<hist, latest, queueHist>>
    \/ \E t \in UndecodableTexts :
           manager_recv_undecodable(t) /\ UNCHANGED <<hist, latest, queueHist>>
    \/ manager_recv_other /\ UNCHANGED <<hist, latest, queueHist>>
    \/ manager_recv_read_error /\ UNCHANGED <<hist, latest, queueHist>>
    \/ manager_recv_drain /\ UNCHANGED <<hist, latest, queueHist>>
    \/ manager_recv_feed /\ UNCHANGED <<hist, latest, queueHist>>
    \/ manager_recv_flush /\ UNCHANGED <<hist, latest, queueHist>>
    \/ manager_recv_cancel /\ UNCHANGED <<hist, latest, queueHist>>

ManagerInit ==
    /\ connect
    /\ armed = "no" /\ fired = "no" /\ bounce = NoBounce /\ lastSeq = 0
    /\ latest = "none"
    /\ QueueHistInit

SpecManager == ManagerInit /\ [][NextManager]_vars

\* the application calls Manager::recv again whenever a call has returned,
\* and the steps of a call that wait on nothing but the program or on a
\* write to the transport complete
SpecManagerLive ==
    /\ ManagerInit
    /\ [][NextManager]_vars
    /\ WF_vars(manager_recv_call /\ UNCHANGED <<hist, latest, queueHist>>)
    /\ WF_vars(manager_recv_top /\ UNCHANGED <<hist, latest, queueHist>>)
    /\ WF_vars(manager_recv_drain /\ UNCHANGED <<hist, latest, queueHist>>)
    /\ WF_vars(manager_recv_feed /\ UNCHANGED <<hist, latest, queueHist>>)
    /\ WF_vars(manager_recv_flush /\ UNCHANGED <<hist, latest, queueHist>>)

(* ---------------------------------------------------------------------- *)
(* Properties                                                              *)
(* ---------------------------------------------------------------------- *)
HelloEvents == {EvHello(h) : h \in HeartbeatIntervals}

\* the close-code table of the specification's taxonomy
SpecCloseCode(c) ==
    CASE c = 4000 -> UnknownError
      [] c = 4001 -> UnknownOpcode
      [] c = 4002 -> DecodeError
      [] c = 4003 -> NotAuthenticated
      [] c = 4004 -> AuthenticationFailed
      [] c = 4005 -> AlreadyAuthenticated
      [] c = 4007 -> InvalidSeq
      [] c = 4008 -> RateLimited
      [] c = 4009 -> SessionTimedOut
      [] c = 4010 -> InvalidShard
      [] c = 4011 -> ShardingRequired
      [] c = 4012 -> InvalidAPIVersion
      [] c = 4013 -> InvalidIntents
      [] c = 4014 -> DisallowedIntents
      [] OTHER -> Other(c)

\* the codes the taxonomy lists as non-recoverable
SpecFatalInputs == {4004, 4010, 4011, 4012, 4013, 4014}

\* the codes the taxonomy lists as recoverable
SpecRecoverableInputs ==
    {c \in CloseInputs :
        c \in {4000, 4001, 4002, 4003, 4005, 4007, 4008, 4009}
            \/ c \notin 4000..4999}

\* what a frame that only sets the state leaves alone
QueuesAndSessionKept ==
    UNCHANGED <<recv_queue, send_queue, seq, session_id, heartbeat_interval>>

\* C1: once the state is Failed(c) no call changes it, and a frame received
\* in Failed appends no command to send_queue.
C1_FailedIsAbsorbing ==
    [][state.tag = "Failed" =>
          /\ state' = state
          /\ \A e \in GatewayEvents : recv(e) => send_queue' = send_queue]_vars

\* C2: recv_close_code(c) for c in 4004, 4010..4014 moves any state to
\* Failed(code of c); failed() is then that code and should_reconnect() false.
C2_FatalCloseCodesFail ==
    [][\A c \in SpecFatalInputs :
          recv_close_code(c) =>
              /\ state' = Failed(SpecCloseCode(c))
              /\ failed' = <<SpecCloseCode(c)>>
              /\ ~should_reconnect']_vars

\* C3: recv_close_code(c) for a code the taxonomy lists as recoverable, or a
\* code outside 4000..4999, moves a non-Failed context to Resume;
\* should_reconnect() is then true and failed() None.
C3_RecoverableCloseCodesResume ==
    [][\A c \in SpecRecoverableInputs :
          state.tag # "Failed" /\ recv_close_code(c) =>
              /\ state' = Resume
              /\ should_reconnect'
              /\ failed' = <<>>]_vars

\* C4: after recv_close_code(1000) should_reconnect() is true and failed()
\* None; a recv_close_code(4005) that follows makes should_reconnect() false
\* and failed() Some(AuthenticationFailed).
C4_DocExampleCloseCodes ==
    [][/\ recv_close_code(1000) => should_reconnect' /\ failed' = <<>>
       /\ state = Resume /\ socket_closed /\ recv_close_code(4005) =>
              ~should_reconnect' /\ failed' = <<AuthenticationFailed>>]_vars

C4_Witness ==
    /\ state = Failed(AuthenticationFailed)
    /\ socket_closed
    /\ session_id = "S"

\* C5: a Hello(h) received in Resume or Ready sets heartbeat_interval to h
\* and the state to Replaying, and appends exactly one command, the Resume
\* with the configured token and the context's session_id and seq.
C5_HelloResumes ==
    [][\A e \in HelloEvents :
          state \in {Resume, Ready} /\ recv(e) =>
              /\ heartbeat_interval' = e.n
              /\ state' = Replaying
              /\ send_queue' =
                   Append(send_queue, CmdResume(seq, session_id, config.token))]_vars

C5_Witness ==
    /\ state = Replaying
    /\ heartbeat_interval = 15
    /\ Len(send_queue) = 2
    /\ send_queue[2] = CmdResume(1, "S", config.token)

\* C6: a Hello(h) received in any state but Resume and Ready sets
\* heartbeat_interval to h and the state to Identify, and appends exactly one
\* command, the Identify with the configured token, shard and intents.
C6_HelloIdentifies ==
    [][\A e \in HelloEvents :
          state \notin {Resume, Ready} /\ recv(e) =>
              /\ heartbeat_interval' = e.n
              /\ state' = Identify
              /\ send_queue' =
                   Append(send_queue,
                          CmdIdentify(config.token, config.shard, config.intents))]_vars

C6_Witness ==
    /\ state = Identify
    /\ heartbeat_interval = 15
    /\ session_id = "S"
    /\ Len(send_queue) = 2
    /\ send_queue[2] = CmdIdentify("TOKEN", <<1, 2>>, 513)

\* C7: after Ready with session id S, dispatches leaving seq = n, and a
\* recoverable close, should_reconnect() is true until the Hello; the Hello
\* appends exactly the Resume with S and n and gives Replaying; a Resumed
\* dispatch right after gives Ready.
C7_ResumeAcrossBounce ==
    [][/\ bounce'.phase = "closed" => should_reconnect'
       /\ bounce.phase = "closed" /\ bounce'.phase = "hello" =>
              /\ send_queue' =
                   Append(send_queue,
                          CmdResume(bounce.seq, bounce.sid, config.token))
              /\ state' = Replaying
       /\ bounce'.phase = "resumed" => state' = Ready]_vars

C7_Witness ==
    /\ bounce.phase = "resumed"
    /\ bounce.sid = "S"
    /\ bounce.seq > 0
    /\ state = Ready

\* C8: when a Dispatch Ready was received and no InvalidateSession(false)
\* and no non-recoverable close since, the next Hello appends a Resume,
\* whatever frames and recoverable closes came in between.
C8_ReadySessionResumesFirst ==
    [][\A e \in HelloEvents :
          armed # "no" /\ recv(e) =>
              /\ Len(send_queue') = Len(send_queue) + 1
              /\ send_queue'[Len(send_queue')].cmd = "Resume"]_vars

C8_Witness ==
    /\ fired = "closed"
    /\ state = Replaying
    /\ send_queue # <<>>
    /\ send_queue[Len(send_queue)].cmd = "Resume"

\* C9: while no Dispatch Ready was ever received (session_id is empty), a
\* Hello appends an Identify and never a Resume.
C9_NeverReadyIdentifies ==
    [][\A e \in HelloEvents :
          session_id = "" /\ recv(e) =>
              send_queue'[Len(send_queue')].cmd = "Identify"]_vars

\* C10: in a non-Failed state InvalidateSession(false) gives Reconnect, and
\* InvalidateSession(true) or Reconnect gives Resume; should_reconnect() is
\* true afterwards and the queues, seq, session_id and heartbeat_interval
\* are as before.
C10_InvalidateAndReconnect ==
    [][state.tag # "Failed" =>
          /\ recv(EvInvalidateSession(FALSE)) =>
                 state' = Reconnect /\ should_reconnect' /\ QueuesAndSessionKept
          /\ recv(EvInvalidateSession(TRUE)) \/ recv(EvReconnect) =>
                 state' = Resume /\ should_reconnect' /\ QueuesAndSessionKept]_vars

C10_Witness ==
    /\ state = Reconnect
    /\ ~socket_closed
    /\ session_id = "S"
    /\ seq > 0
    /\ send_queue # <<>>
    /\ recv_queue # <<>>

DispatchFrames == {e \in GatewayEvents : e.op = "Dispatch"}

\* every value of CloseCode the inputs can produce
CloseCodes ==
    {UnknownError, UnknownOpcode, DecodeError, NotAuthenticated,
     AuthenticationFailed, AlreadyAuthenticated, InvalidSeq, RateLimited,
     SessionTimedOut, InvalidShard, ShardingRequired, InvalidAPIVersion,
     InvalidIntents, DisallowedIntents}
        \cup {Other(v) : v \in CloseInputs}

\* C11: in Ready, InvalidateSession(false) gives Reconnect and emits no
\* command; the Hello that follows appends an Identify and not a Resume.
C11_InvalidatedSessionReidentifies ==
    [][/\ state = Ready /\ recv(EvInvalidateSession(FALSE)) =>
              state' = Reconnect /\ send_queue' = send_queue
       /\ bounce.phase = "invalidated" /\ bounce'.phase = "reidentified" =>
              /\ state' = Identify
              /\ send_queue' =
                   Append(send_queue,
                          CmdIdentify(config.token, config.shard, config.intents))]_vars

C11_Witness ==
    /\ bounce.phase = "reidentified"
    /\ state = Identify
    /\ session_id = "S"
    /\ send_queue # <<>>
    /\ send_queue[Len(send_queue)].cmd = "Identify"

\* C12: the value of seq after every call is greater than or equal to its
\* value before the call.
C12_SeqNonDecreasing == [][seq' >= seq]_vars

\* C12 as amended: seq goes down only by recv of a Dispatch frame that
\* carries a sequence number below seq; every other call leaves seq at least
\* as large as it was.
C12_SeqLoweredOnlyByDispatch ==
    [][seq' < seq => \E e \in DispatchFrames : e.n < seq /\ recv(e)]_vars

C12_Witness ==
    /\ seq = 1
    /\ send_queue = <<CmdHeartbeat(0), CmdHeartbeat(1)>>

\* C13: seq equals the sequence number of the latest Dispatch frame, 0
\* before any, also when that number is below an earlier one; the events are
\* queued in the order of the frames.
C13_SeqIsLatestDispatch ==
    [][/\ seq' = lastSeq'
       /\ \A e \in DispatchFrames :
              recv(e) => seq' = e.n /\ recv_queue' = Append(recv_queue, e.d)]_vars

C13_Witness ==
    /\ seq = 0
    /\ send_queue = <<CmdHeartbeat(1)>>
    /\ recv_queue # <<>>

\* C14: state = Failed(c) implies should_reconnect() = false and
\* failed() = Some(c); in every other state failed() is None.
C14_FailedObservers ==
    /\ \A c \in CloseCodes :
           state = Failed(c) => ~should_reconnect /\ failed = <<c>>
    /\ state.tag # "Failed" => failed = <<>>

C14_Witness ==
    /\ state = Failed(InvalidShard)
    /\ socket_closed
    /\ send_queue # <<>>

\* C15: should_reconnect() is true exactly when state is Resume or
\* Reconnect, or socket_closed is true and state is not Failed.
C15_ShouldReconnectExactly ==
    should_reconnect <=>
        \/ state \in {Resume, Reconnect}
        \/ socket_closed /\ state.tag # "Failed"

C15_Witness ==
    /\ state = Reconnect
    /\ ~socket_closed
    /\ should_reconnect
    /\ heartbeat_interval = 10

\* a context as new returns it, nothing received or queued yet
Pristine ==
    /\ state = Closed
    /\ seq = 0
    /\ session_id = ""
    /\ heartbeat_interval = 0
    /\ send_queue = <<>>
    /\ recv_queue = <<>>
    /\ ~socket_closed

\* C16: on a context fresh from new(config), recv(Hello(10)) sets
\* heartbeat_interval to 10 and emits exactly one command, an Identify with the
\* configured token and shard [0,1]; a following Dispatch(0, Ready{S}) gives
\* state Ready, session_id S, seq 0 and the Ready dispatch as the next event.
\* In every state, a Ready or Resumed dispatch sets state to Ready, any other
\* dispatch leaves state unchanged, and every dispatch sets seq to its sequence
\* number and appends its event to recv_queue.
C16_FreshConnectionAndDispatch ==
    [][/\ Pristine /\ recv(EvHello(10)) =>
              /\ heartbeat_interval' = 10
              /\ state' = Identify
              /\ send_queue' = <<CmdIdentify(config.token, <<0, 1>>, config.intents)>>
       /\ \A e \in DispatchFrames : recv(e) =>
              /\ state' = IF e.d.kind \in {"Ready", "Resumed"} THEN Ready ELSE state
              /\ e.d.kind = "Ready" => session_id' = e.d.session_id
              /\ seq' = e.n
              /\ recv_queue' = Append(recv_queue, e.d)
              /\ send_queue' = send_queue
       /\ recv_queue # <<>> /\ event => recv_queue' = Tail(recv_queue)]_vars

C16_Witness ==
    /\ config = ConfigNew("TOKEN", 0)
    /\ state = Ready
    /\ session_id = "S"
    /\ seq = 0
    /\ heartbeat_interval = 10
    /\ send_queue = <<CmdIdentify("TOKEN", <<0, 1>>, 0)>>
    /\ recv_queue = <<DispatchReady("S")>>

HeartbeatFrames == {e \in GatewayEvents : e.op = "Heartbeat"}

\* C17: recv(Heartbeat(x)) in a state that is not Failed leaves state
\* unchanged and appends exactly one command to send_queue, Heartbeat(seq)
\* with the context's own seq, whatever x the request carries.
C17_HeartbeatRequestAnswered ==
    [][\A e \in HeartbeatFrames : state.tag # "Failed" /\ recv(e) =>
           /\ state' = state
           /\ seq' = seq
           /\ send_queue' = Append(send_queue, CmdHeartbeat(seq))]_vars

C17_Witness ==
    /\ latest = "hb"
    /\ state = Ready
    /\ seq = 1
    /\ Len(send_queue) = 2
    /\ send_queue[2] = CmdHeartbeat(1)

\* C18: queue_heartbeat appends exactly one Heartbeat(seq), with the current
\* seq, to the tail of send_queue; the entries already queued keep their order
\* and state, seq, session_id, heartbeat_interval, socket_closed and recv_queue
\* are unchanged.
C18_QueueHeartbeatFrame ==
    [][queue_heartbeat =>
           /\ send_queue' = Append(send_queue, CmdHeartbeat(seq))
           /\ UNCHANGED <<state, seq, session_id, heartbeat_interval,
                          socket_closed, recv_queue, config>>]_vars

C18_Witness ==
    /\ latest = "qh"
    /\ socket_closed
    /\ state = Resume
    /\ session_id = "S"
    /\ send_queue = <<CmdUpdatePresence, CmdHeartbeat(1)>>

\* C19: recv(HeartbeatAck) leaves state, seq, session_id, send_queue and
\* recv_queue as they were, so any number of them in a row does.
C19_HeartbeatAckNoOp ==
    [][recv(EvHeartbeatAck) =>
           UNCHANGED <<state, seq, session_id, send_queue, recv_queue>>]_vars

C19_Witness ==
    /\ latest = "acks"
    /\ state = Replaying
    /\ seq = 1
    /\ send_queue # <<>>
    /\ recv_queue # <<>>

C21_FreshContext ==
    [][\A c \in NewConfigs : new(c) =>
           /\ state' = Closed
           /\ send_queue' = <<>> /\ recv_queue' = <<>>
           /\ seq' = 0 /\ heartbeat_interval' = 0 /\ session_id' = ""
           /\ send_value' = <<>> /\ event_value' = <<>>
           /\ failed' = <<>>
           /\ ~should_reconnect']_vars

C21_Witness ==
    /\ Pristine
    /\ config = ConfigNew("TOKEN", 0)
    /\ send_value = <<>> /\ event_value = <<>>
    /\ failed = <<>>
    /\ ~should_reconnect

\* C22: the events handed out by event and events, followed by the events
\* still queued, are the events of the Dispatch frames received, in order of
\* arrival: what was returned is a prefix of what arrived, nothing is returned
\* twice or skipped, and event returns None exactly when every event received
\* has been returned.
C22_EventsInArrivalOrder ==
    /\ arrived = returned \o recv_queue
    /\ event_value = <<>> <=> returned = arrived

C22_Witness ==
    /\ arrived = <<DispatchMessageCreate, DispatchReady("S")>>
    /\ returned = <<DispatchMessageCreate>>
    /\ recv_queue = <<DispatchReady("S")>>
    /\ event_value = <<DispatchReady("S")>>

\* C23: the commands handed out by send and send_iter, followed by the
\* commands still queued, are the commands put on send_queue by recv,
\* queue_heartbeat and enqueue_command, in the order they were put there.
C23_CommandsInAppendOrder ==
    appended = written \o send_queue

C23_Witness ==
    /\ appended = <<HelloIdentifyCommand, CmdUpdatePresence>>
    /\ written = <<HelloIdentifyCommand>>
    /\ send_queue = <<CmdUpdatePresence>>
    /\ send_value = <<CmdUpdatePresence>>

\* C24: the Identify command a Hello puts on send_queue has the token, shard,
\* intents, presence, identify properties and large_threshold of the
\* configuration (large_threshold 50 and shard [0,1] unless set otherwise)
\* and compress false.
C24_IdentifyFromConfig ==
    [][\A e \in HelloEvents :
          ~HelloResumes(state) /\ recv(e) =>
              send_queue' =
                  Append(send_queue,
                         IdentifyInfo(config.token, config.shard, config.intents,
                                      config.large_threshold, config.presence,
                                      config.identify_properties))]_vars

\* C25 as stated: over all the calls of Manager::recv the application sees at
\* most one close-code error.
C25_AtMostOneCloseError == errors <= 1

\* C25: at the head of its loop Manager::recv returns a queued event before
\* it looks at failed(); with nothing queued and the context Failed it returns
\* the close code and touches neither context nor transport.  Once a call has
\* returned the close-code error the context stays Failed with that code, no
\* event is queued or returned, nothing is read from, written to or opened on
\* the transport, and every later call returns the same close-code error.
C25_TerminalErrorRepeats ==
    [][/\ manager_recv_top /\ recv_queue # <<>> =>
              /\ result' = Ok(Head(recv_queue))
              /\ recv_queue' = Tail(recv_queue)
       /\ manager_recv_top /\ recv_queue = <<>> /\ failed # <<>> =>
              /\ result' = ErrClose(failed[1])
              /\ pc' = "idle"
              /\ UNCHANGED <<ctx, draining, sock, first>>
       /\ errors >= 1 =>
              /\ state.tag = "Failed" /\ state' = state
              /\ recv_queue' = <<>>
              /\ pc' \in {"idle", "top"}
              /\ result' \in {NoResult, ErrClose(state.code)}
              /\ UNCHANGED <<send_queue, draining, sock, first>>]_vars

C25_Witness ==
    /\ errors = 2
    /\ pc = "idle"
    /\ result = ErrClose(AuthenticationFailed)
    /\ state = Failed(AuthenticationFailed)
    /\ session_id = "S"
    /\ first # <<>>

\* C26: the only error a call of Manager::recv returns is the close code of a
\* Failed context; read errors, the end of the stream, write and flush
\* failures and failed reconnects never come back as the result of a call.
C26_OnlyCloseCodeErrors == result.tag # "ErrTransport"

\* C27: on a transport opened by reconnect_socket for a session that had
\* reached Ready, the first command written is the Resume.
C27_ResumeWrittenFirst ==
    resumeDue /\ first # <<>> => first[1].cmd = "Resume"

\* C28: send_queue is empty whenever Manager::recv starts waiting at the
\* timer-vs-frame race: whatever one ctx.recv call or one tick queued has been
\* written before the next frame is read.
C28_QueueEmptyAtRace == pc = "select" => send_queue = <<>>

\* C29: when the future of Manager::recv is dropped where it waits, every
\* command not yet written is still in send_queue and every event not yet
\* returned is still in recv_queue.
C29_CancelKeepsPending ==
    [][manager_recv_cancel =>
           /\ send_queue' = draining \o send_queue
           /\ recv_queue' = recv_queue]_vars

\* C30: a read error or the end of the stream leaves the context as
\* recv_close_code(1006) does, in state Resume with should_reconnect() true,
\* and the Hello of the transport opened next is answered with a Resume.
C30_ReadErrorLikeClose1006 ==
    [][/\ manager_recv_read_error =>
              /\ state' = CloseState(CloseCodeFrom(1006))
              /\ should_reconnect'
       /\ \A e \in HelloEvents : readError /\ manager_recv_text(e) =>
              /\ state' = Replaying
              /\ send_queue' = Append(send_queue, HelloResumeCommand)]_vars

\* C31: a text frame that does not decode is dropped: the context keeps its
\* state, seq, session_id, heartbeat_interval and both queues, the program is
\* not aborted and Manager::recv goes on to the flush loop and the next frame.
C31_UndecodableFrameDropped ==
    [][\A t \in UndecodableTexts : manager_recv_undecodable(t) =>
           /\ UNCHANGED <<state, seq, session_id, heartbeat_interval,
                          send_queue, recv_queue>>
           /\ pc' = "flush"]_vars

\* the steps of Manager::recv that call reconnect_socket
ReconnectAtHead ==
    /\ manager_recv_top
    /\ recv_queue = <<>>
    /\ failed = <<>>
    /\ should_reconnect
ReconnectStep == ReconnectAtHead \/ manager_recv_read_error

\* C32: on every Manager reconnect the old transport is closed before the
\* new one is opened, so at no point are two transports open, and the
\* reconnect changes neither state, seq, session_id nor the two queues.
C32_ReconnectClosesFirst ==
    /\ [](open <= 1 /\ peak <= 1)
    /\ [][ReconnectStep =>
             UNCHANGED <<state, seq, session_id, send_queue, recv_queue>>]_vars

\* a session with an event behind it whose transport was replaced at the
\* loop head
C32_Witness ==
    /\ reopened = "head"
    /\ sock = "new"
    /\ open = 1
    /\ state = Resume
    /\ session_id = "S"
    /\ seq = 1

\* C33: once the context is Failed(c), repeated calls of Manager::recv
\* return the close code c as an error.
C33_FailedReported ==
    (state.tag = "Failed") ~> (result = ErrClose(state.code))

\* the only way past it: the flush loop that follows the close panics
C33_FailedReportedOrPanicked ==
    (state.tag = "Failed") ~> (result = ErrClose(state.code) \/ pc = "panicked")

\* C34: seq is written only by recv of a Dispatch frame; every other frame
\* and every other operation leaves it as it is, so a re-identify or a
\* reconnect does not put it back to 0.
C34_SeqWrittenByDispatchOnly ==
    [][seq' # seq => \E e \in DispatchFrames : recv(e)]_vars

\* a session that has seen sequence number 1, was invalidated and has
\* queued its new Identify
C34_Witness ==
    /\ seq = 1
    /\ state = Identify
    /\ send_queue # <<>>
    /\ send_queue[Len(send_queue)].cmd = "Identify"

\* C36: the socket is recorded closed only in Resume or Failed, so
\* should_reconnect is true exactly in Resume and Reconnect and its
\* socket_closed arm never decides.
C36_SocketClosedOnlyInResumeOrFailed ==
    /\ socket_closed => state = Resume \/ state.tag = "Failed"
    /\ should_reconnect <=> state \in {Resume, Reconnect}

\* a recoverable close has been received: the socket is recorded closed and
\* should_reconnect is true through its Resume arm
C36_Witness ==
    /\ socket_closed
    /\ state = Resume
    /\ should_reconnect

\* C38: recv_close_code changes state and socket_closed alone: seq,
\* session_id, heartbeat_interval and both queues are as before.
C38_CloseKeepsSessionAndQueues ==
    [][\A v \in FewCloseInputs : recv_close_code(v) =>
           UNCHANGED <<seq, session_id, heartbeat_interval, send_queue,
                       recv_queue>>]_vars

\* a closed session that still holds its session data, a queued command and
\* a queued event
C38_Witness ==
    /\ socket_closed
    /\ state = Resume
    /\ session_id = "S"
    /\ seq = 1
    /\ send_queue # <<>>
    /\ recv_queue # <<>>

\* after a reconnect at the loop head, no second reconnect at the loop head
\* before the context has processed a frame of the new transport
NoSecondReconnectBeforeFrame ==
    [][reopened = "head" /\ sock = "new" => ~ReconnectAtHead]_vars

\* C35: after a reconnect at the loop head, a heartbeat tick that wins the
\* race before the Hello of the new transport (its Heartbeat is the first
\* command written to it) does not make the next loop head reconnect again.
C35_NoSecondReconnectAfterTick ==
    [][(/\ reopened = "head"
        /\ sock = "new"
        /\ first # <<>>
        /\ first[1].cmd = "Heartbeat") => ~ReconnectAtHead]_vars

\* C37: the period of the Manager's heartbeat clock is the context's
\* heartbeat_interval at all times.
C37_ClockFollowsHello ==
    interval = heartbeat_interval

====
